---- MODULE Spec2Model ----
(***************************************************************************)
(* Model of the Virt Manager AIDL service (virtmanager/src/aidl.rs).       *)
(*                                                                         *)
(* The service keeps one State behind a Mutex: the next CID to hand out,   *)
(* a list of weak references to the VMs it started and a list of strong    *)
(* references held for debugging.  Binder calls arrive on several threads; *)
(* each handler is modelled step by step (lock acquisition, the external   *)
(* calls made while the lock is held, the return).  Clients release their  *)
(* handles at any time, without taking the lock.                           *)
(***************************************************************************)
EXTENDS Integers, Sequences, FiniteSets, TLC

(***************************************************************************)
(* Bounds of the model.                                                    *)
(***************************************************************************)
\* Width of the Cid type (u32 in the program), scaled down.
CidBits == 3
\* Number of VM instances the launcher may produce in one behaviour.
MaxLaunches == 6
\* Number of entries debug_held_vms may reach.
MaxHeld == 2
\* Number of VM instances alive at the same time.
MaxLive == 2
\* Number of VM instances the launcher may produce where progress is checked.
LiveLaunches == 2

(***************************************************************************)
(* Program constants.                                                      *)
(***************************************************************************)
\* crate::FIRST_GUEST_CID: the first CID that is not reserved.
FIRST_GUEST_CID == 3
\* const DEBUG_ALLOWED_UIDS: [u32; 2] = [0, 2000];
DEBUG_ALLOWED_UIDS == {0, 2000}

\* Cid::MAX and the range of the i32 the AIDL interface reports CIDs in.
CidMax == 2^CidBits - 1
I32Max == 2^(CidBits - 1) - 1
I32Min == -(2^(CidBits - 1))

\* Binder threads serving calls, UIDs of callers, config paths passed in.
Threads == {"t1", "t2"}
NoThread == "none"
Uids == {0, 1000, 2000}
\* The client processes; each holds at most one proxy per VM.
Clients == {"client"}
MaxClients == Cardinality(Clients)
ConfigPaths == {"a.json", "b.json"}

VARIABLES
    next_cid,        \* State::next_cid
    vms,             \* State::vms: weak references (instance ids)
    debug_held_vms,  \* State::debug_held_vms: strong references (instance ids)
    lock,            \* owner of VirtManager::state (the Mutex), or NoThread
    insts,           \* every VmInstance the launcher produced, by id
    th,              \* per binder thread: position in its handler and locals
    launched,        \* history: CIDs of the instances the launcher produced
    assigned,        \* history: CIDs returned by successful startVm calls
    last_failed,     \* history: CID read by the latest failed startVm since
                     \* the last successful one (-1: none)
    binder_threads,  \* the threads of the binder thread pool
    budget,          \* launches left before the model stops starting VMs
    held_cap         \* entries debug_held_vms may reach in this behaviour

\* What no handler changes.
env == <<binder_threads, budget, held_cap>>

vars == <<next_cid, vms, debug_held_vms, lock, insts, th, launched, assigned,
          last_failed, binder_threads, budget, held_cap>>

(***************************************************************************)
(* Values.                                                                 *)
(***************************************************************************)
\* A VmInstance whose last strong reference is gone: the value is dropped,
\* only the allocation remains for the weak references to point at.
Dropped == [cid |-> 0, config_path |-> "", strong |-> 0, client |-> 0]

NoRet == [status |-> "NONE", inst |-> 0, list |-> <<>>, prev_failed |-> -1]

\* A binder thread: where it is in the handler it runs (pc, op), the
\* handler's arguments and locals, whether startVm was entered while another
\* startVm held the Mutex (waited), and the result it returned last (ret).
Idle == [pc |-> "idle", op |-> "none", config_path |-> "", cid |-> 0,
         inst |-> 0, idx |-> 0, tmp |-> <<>>, waited |-> FALSE, ret |-> NoRet]

\* `cid as i32`: the two's complement reinterpretation of a Cid.
AsI32(c) == IF c > I32Max THEN c - 2^CidBits ELSE c

\* VirtualMachine::getCid on the handle of instance i.
getCid(ins, i) == AsI32(ins[i].cid)

\* Weak::strong_count
strong_count(ins, i) == ins[i].strong

\* Faulty variant of upgrade: a stale weak reference upgrades too.
upgrade_stale(ins, i) == TRUE

\* Weak::upgrade succeeds while a strong reference exists.
upgrade(ins, i) == strong_count(ins, i) > 0

\* Dropping one strong reference to instance i; the last one drops the value.
DropStrong(ins, i) ==
    IF ins[i].strong = 1 THEN [ins EXCEPT ![i] = Dropped]
    ELSE [ins EXCEPT ![i].strong = @ - 1]

\* Arc::clone / Weak::upgrade succeeding on instance i.
CloneStrong(ins, i) == [ins EXCEPT ![i].strong = @ + 1]

\* A strong binder reference to instance i goes to a caller.  A process has
\* one proxy per remote object: in a process that holds a handle to i
\* already the reference merges with it.
GiveToClient(ins, i) ==
    IF ins[i].client < MaxClients
    THEN [ins EXCEPT ![i].client = @ + 1]
    ELSE [ins EXCEPT ![i].strong = @ - 1]

RECURSIVE DropAll(_, _)
DropAll(ins, s) ==
    IF s = <<>> THEN ins ELSE DropAll(DropStrong(ins, Head(s)), Tail(s))

\* Faulty variant of debug_access_allowed: only the superuser passes.
debug_access_allowed_root_only(uid) == uid = 0

\* fn debug_access_allowed() -> bool, for the calling UID of the request.
debug_access_allowed(uid) == uid \in DEBUG_ALLOWED_UIDS

\* Faulty variants of checked_add: one that does not advance, one that wraps.
checked_add_stuck(n) == n
checked_add_wrapping(n) == (n + 1) % (2^CidBits)

\* u32::checked_add(1): -1 stands for None.
checked_add(n) == IF n = CidMax THEN -1 ELSE n + 1

\* Faulty variant of add_vm: no garbage collection of the stale entries.
add_vm_no_retain(v, ins, i) == Append(v, i)

\* State::add_vm
add_vm(v, ins, i) ==
    Append(SelectSeq(v, LAMBDA j : strong_count(ins, j) > 0), i)

\* Faulty variant of debug_hold_vm: a reference that is held already is
\* merged with the entry it has.
debug_hold_vm_merging(held, i) ==
    IF \E k \in 1..Len(held) : held[k] = i THEN held ELSE Append(held, i)

\* State::debug_hold_vm
debug_hold_vm(held, i) == Append(held, i)

\* Faulty variants of position: one that compares the CID without the
\* conversion getCid makes, one that falls back to the last entry.
position_raw(held, ins, c) ==
    IF \E k \in 1..Len(held) : ins[held[k]].cid = c
    THEN CHOOSE k \in 1..Len(held) :
            /\ ins[held[k]].cid = c
            /\ \A m \in 1..(k - 1) : ins[held[m]].cid # c
    ELSE 0
position_or_last(held, ins, c) ==
    IF \E k \in 1..Len(held) : getCid(ins, held[k]) = c
    THEN CHOOSE k \in 1..Len(held) :
            /\ getCid(ins, held[k]) = c
            /\ \A m \in 1..(k - 1) : getCid(ins, held[m]) # c
    ELSE Len(held)

\* Iterator::position over debug_held_vms (0: None).
position(held, ins, c) ==
    IF \E k \in 1..Len(held) : getCid(ins, held[k]) = c
    THEN CHOOSE k \in 1..Len(held) :
            /\ getCid(ins, held[k]) = c
            /\ \A m \in 1..(k - 1) : getCid(ins, held[m]) # c
    ELSE 0

\* Vec::swap_remove
swap_remove(s, pos) ==
    [k \in 1..(Len(s) - 1) |-> IF k = pos THEN s[Len(s)] ELSE s[k]]

\* What debugListVms projects an instance to.
DebugInfo(ins, i) == [cid |-> AsI32(ins[i].cid), configPath |-> ins[i].config_path]

\* Faulty variant of the Mutex: no exclusion.
MutexFree_NoExclusion == TRUE

\* The Mutex can be taken.
MutexFree == lock = NoThread

Done(t, status, i, l, pf) ==
    [Idle EXCEPT !.pc = "done", !.op = th[t].op, !.waited = th[t].waited,
                 !.cid = th[t].cid,
                 !.ret = [status |-> status, inst |-> i, list |-> l,
                          prev_failed |-> pf]]

(***************************************************************************)
(* Initial state: State::default() and no call in flight.                  *)
(***************************************************************************)
Init ==
    /\ next_cid = FIRST_GUEST_CID
    /\ vms = <<>>
    /\ debug_held_vms = <<>>
    /\ lock = NoThread
    /\ insts = <<>>
    /\ th = [t \in Threads |-> Idle]
    /\ launched = <<>>
    /\ assigned = <<>>
    /\ last_failed = -1
    /\ binder_threads = {"t1"}
    /\ budget = MaxLaunches
    /\ held_cap = MaxHeld

\* The service after it started and lost all the VMs up to CID CidMax - 3,
\* now with two binder threads.
\* It may launch three more: two get the last CIDs, the third overflows.
WarmStarts == CidMax - 2 - FIRST_GUEST_CID
WarmLaunches == MaxLaunches - 3
InitConc ==
    /\ next_cid = CidMax - 2
    /\ vms = IF WarmStarts > 0 THEN <<WarmStarts>> ELSE <<>>
    /\ debug_held_vms = <<>>
    /\ lock = NoThread
    /\ insts = [i \in 1..WarmStarts |-> Dropped]
    /\ th = [t \in Threads |-> Idle]
    /\ launched = [i \in 1..WarmStarts |-> FIRST_GUEST_CID + i - 1]
    /\ assigned = [i \in 1..WarmStarts |-> FIRST_GUEST_CID + i - 1]
    /\ last_failed = -1
    /\ binder_threads = Threads
    /\ budget = WarmLaunches
    /\ held_cap = MaxHeld - 1

\* The service one successful start away from the last CID, with two binder
\* threads: the launcher may produce two more instances, the second of them
\* for the startVm that overflows.
LiveWarmStarts == CidMax - 1 - FIRST_GUEST_CID
InitLive ==
    /\ next_cid = CidMax - 1
    /\ vms = IF LiveWarmStarts > 0 THEN <<LiveWarmStarts>> ELSE <<>>
    /\ debug_held_vms = <<>>
    /\ lock = NoThread
    /\ insts = [i \in 1..LiveWarmStarts |-> Dropped]
    /\ th = [t \in Threads |-> Idle]
    /\ launched = [i \in 1..LiveWarmStarts |-> FIRST_GUEST_CID + i - 1]
    /\ assigned = [i \in 1..LiveWarmStarts |-> FIRST_GUEST_CID + i - 1]
    /\ last_failed = -1
    /\ binder_threads = Threads
    /\ budget = LiveLaunches
    /\ held_cap = 1

(***************************************************************************)
(* startVm                                                                 *)
(***************************************************************************)
\* Instances alive, and startVm calls on their way to the launcher.
LiveCount == Cardinality({i \in 1..Len(insts) : insts[i].strong > 0})
StartsInFlight ==
    Cardinality({t \in Threads :
                    th[t].pc \in {"start_lock", "start_dup", "start_load", "start_launch"}})

\* The config path of a call.  The service never looks into the path, it
\* hands it to the loader and the launcher and stores it with the instance:
\* the calls alternate between the two paths, which tells a VM from the one
\* started before it.
ConfigPathOf(k) == IF k % 2 = 1 THEN "a.json" ELSE "b.json"

\* A client calls startVm(config_path, log_fd); the handler is entered.
StartCall(t, p) ==
    /\ th[t].pc = "idle"
    /\ p = ConfigPathOf(Len(insts) + 1)
    /\ StartsInFlight < budget
    /\ LiveCount + StartsInFlight < MaxLive
    /\ th' = [th EXCEPT ![t] = [Idle EXCEPT !.pc = "start_lock",
                                            !.op = "startVm",
                                            !.config_path = p,
                                            !.waited = \E u \in Threads :
                                                lock = u /\ th[u].op = "startVm"]]
    /\ UNCHANGED <<next_cid, vms, debug_held_vms, lock, insts, launched,
                   assigned, last_failed, env>>

\* lines 56-57: take the lock, read the next CID.
StartLock(t) ==
    /\ th[t].pc = "start_lock"
    /\ MutexFree
    /\ lock' = t
    /\ th' = [th EXCEPT ![t].pc = "start_dup", ![t].cid = next_cid]
    /\ UNCHANGED <<next_cid, vms, debug_held_vms, insts, launched, assigned,
                   last_failed, env>>

\* Faulty variant of a failed attempt: the CID it read is consumed.
StartFail_Consuming(t, status) ==
    /\ lock' = NoThread
    /\ th' = [th EXCEPT ![t] = Done(t, status, 0, <<>>, -1)]
    /\ last_failed' = th[t].cid
    /\ next_cid' = IF next_cid < CidMax THEN next_cid + 1 ELSE next_cid
    /\ UNCHANGED <<vms, debug_held_vms, insts, launched, assigned, env>>

\* A failed attempt: the guard is dropped on return, nothing else changes.
StartFail(t, status) ==
    /\ lock' = NoThread
    /\ th' = [th EXCEPT ![t] = Done(t, status, 0, <<>>, -1)]
    /\ last_failed' = th[t].cid
    /\ UNCHANGED <<next_cid, vms, debug_held_vms, insts, launched, assigned, env>>

\* lines 58-60: duplicate the log fd, if any.
StartDupOk(t) ==
    /\ th[t].pc = "start_dup"
    /\ th' = [th EXCEPT ![t].pc = "start_load"]
    /\ UNCHANGED <<next_cid, vms, debug_held_vms, lock, insts, launched,
                   assigned, last_failed, env>>

StartDupFail(t) ==
    /\ th[t].pc = "start_dup"
    /\ StartFail(t, "UNKNOWN_ERROR")

\* start_vm, lines 197-200: VmConfig::load.
StartLoadOk(t) ==
    /\ th[t].pc = "start_load"
    /\ th' = [th EXCEPT ![t].pc = "start_launch"]
    /\ UNCHANGED <<next_cid, vms, debug_held_vms, lock, insts, launched,
                   assigned, last_failed, env>>

StartLoadFail(t) ==
    /\ th[t].pc = "start_load"
    /\ StartFail(t, "BAD_VALUE")

\* start_vm, lines 201-204 and line 61: VmInstance::start, Arc::new.
StartLaunchOk(t) ==
    /\ th[t].pc = "start_launch"
    /\ insts' = Append(insts, [cid |-> th[t].cid,
                               config_path |-> th[t].config_path,
                               strong |-> 1, client |-> 0])
    /\ launched' = Append(launched, th[t].cid)
    /\ th' = [th EXCEPT ![t].pc = "start_advance", ![t].inst = Len(insts) + 1]
    /\ budget' = budget - 1
    /\ UNCHANGED <<next_cid, vms, debug_held_vms, lock, assigned, last_failed,
                   binder_threads, held_cap>>

StartLaunchFail(t) ==
    /\ th[t].pc = "start_launch"
    /\ StartFail(t, "UNKNOWN_ERROR")

\* line 63: advance the counter.
StartAdvanceOk(t) ==
    /\ th[t].pc = "start_advance"
    /\ checked_add(next_cid) # -1
    /\ next_cid' = checked_add(next_cid)
    /\ th' = [th EXCEPT ![t].pc = "start_add"]
    /\ UNCHANGED <<vms, debug_held_vms, lock, insts, launched, assigned,
                   last_failed, env>>

\* Faulty variant of the overflow return: the instance was added to vms
\* before the counter was advanced.
StartAdvanceOverflow_Tracked(t) ==
    /\ th[t].pc = "start_advance"
    /\ checked_add(next_cid) = -1
    /\ vms' = add_vm(vms, insts, th[t].inst)
    /\ insts' = DropStrong(insts, th[t].inst)
    /\ lock' = NoThread
    /\ th' = [th EXCEPT ![t] = Done(t, "UNKNOWN_ERROR", 0, <<>>, -1)]
    /\ UNCHANGED <<next_cid, debug_held_vms, launched, assigned,
                   last_failed, env>>

\* line 63, None: `?` returns the error; `instance` and the guard are dropped.
StartAdvanceOverflow(t) ==
    /\ th[t].pc = "start_advance"
    /\ checked_add(next_cid) = -1
    /\ insts' = DropStrong(insts, th[t].inst)
    /\ lock' = NoThread
    /\ th' = [th EXCEPT ![t] = Done(t, "UNKNOWN_ERROR", 0, <<>>, -1)]
    /\ UNCHANGED <<next_cid, vms, debug_held_vms, launched, assigned,
                   last_failed, env>>

\* lines 64-66: add_vm, wrap the instance in a binder object, return it.
StartAdd(t) ==
    /\ th[t].pc = "start_add"
    /\ vms' = add_vm(vms, insts, th[t].inst)
    /\ insts' = GiveToClient(insts, th[t].inst)
    /\ lock' = NoThread
    /\ th' = [th EXCEPT ![t] = Done(t, "OK", th[t].inst, <<>>, last_failed)]
    /\ assigned' = Append(assigned, insts[th[t].inst].cid)
    /\ last_failed' = -1
    /\ UNCHANGED <<next_cid, debug_held_vms, launched, env>>

(***************************************************************************)
(* debugListVms                                                            *)
(***************************************************************************)
\* lines 71-73: the gate; a refused caller gets PERMISSION_DENIED at once.
ListCall(t, uid) ==
    /\ th[t].pc = "idle"
    /\ LET c == [Idle EXCEPT !.op = "debugListVms"] IN
       th' = [th EXCEPT ![t] =
                IF debug_access_allowed(uid)
                THEN [c EXCEPT !.pc = "list_lock"]
                ELSE [c EXCEPT !.pc = "done",
                               !.ret.status = "PERMISSION_DENIED"]]
    /\ UNCHANGED <<next_cid, vms, debug_held_vms, lock, insts, launched,
                   assigned, last_failed, env>>

\* line 75: take the lock.
ListLock(t) ==
    /\ th[t].pc = "list_lock"
    /\ MutexFree
    /\ lock' = t
    /\ th' = [th EXCEPT ![t].pc = "list_scan", ![t].idx = 1]
    /\ UNCHANGED <<next_cid, vms, debug_held_vms, insts, launched, assigned,
                   last_failed, env>>

\* State::vms, line 164: Weak::upgrade on the next entry of the list.
ListScan(t) ==
    /\ th[t].pc = "list_scan"
    /\ th[t].idx <= Len(vms)
    /\ LET i == vms[th[t].idx] IN
       IF upgrade(insts, i)
       THEN /\ insts' = CloneStrong(insts, i)
            /\ th' = [th EXCEPT ![t].idx = @ + 1, ![t].tmp = Append(@, i)]
       ELSE /\ insts' = insts
            /\ th' = [th EXCEPT ![t].idx = @ + 1]
    /\ UNCHANGED <<next_cid, vms, debug_held_vms, lock, launched, assigned,
                   last_failed, env>>

\* lines 77-85: project the upgraded instances, drop them, return.
ListReturn(t) ==
    /\ th[t].pc = "list_scan"
    /\ th[t].idx > Len(vms)
    /\ insts' = DropAll(insts, th[t].tmp)
    /\ lock' = NoThread
    /\ th' = [th EXCEPT ![t] =
                [Done(t, "OK", 0,
                      [k \in 1..Len(th[t].tmp) |-> DebugInfo(insts, th[t].tmp[k])],
                      -1)
                 EXCEPT !.tmp = th[t].tmp]]
    /\ UNCHANGED <<next_cid, vms, debug_held_vms, launched, assigned,
                   last_failed, env>>

(***************************************************************************)
(* debugHoldVmRef                                                          *)
(***************************************************************************)
\* Calls that will push onto debug_held_vms once they get the lock.
PendingHolds == Cardinality({t \in Threads : th[t].pc \in {"hold_lock", "hold_push"}})

\* Faulty variant of debugHoldVmRef: the reference it stores does not own
\* the instance.
HoldCall_NotOwning(t, uid, i) ==
    /\ th[t].pc = "idle"
    /\ insts[i].client > 0
    /\ Len(debug_held_vms) + PendingHolds < held_cap
    /\ LET c == [Idle EXCEPT !.op = "debugHoldVmRef"] IN
       IF debug_access_allowed(uid)
       THEN th' = [th EXCEPT ![t] = [c EXCEPT !.pc = "hold_lock", !.inst = i]]
       ELSE th' = [th EXCEPT ![t] = [c EXCEPT !.pc = "done",
                                   !.ret.status = "PERMISSION_DENIED"]]
    /\ UNCHANGED <<next_cid, vms, debug_held_vms, lock, insts, launched,
                   assigned, last_failed, env>>

\* lines 90-95: the gate, then the strong binder reference `vm` to the
\* instance behind the handle the client passed in.
HoldCall(t, uid, i) ==
    /\ th[t].pc = "idle"
    /\ insts[i].client > 0
    /\ Len(debug_held_vms) + PendingHolds < held_cap
    /\ LET c == [Idle EXCEPT !.op = "debugHoldVmRef"] IN
       IF debug_access_allowed(uid)
       THEN /\ th' = [th EXCEPT ![t] = [c EXCEPT !.pc = "hold_lock", !.inst = i]]
            /\ insts' = CloneStrong(insts, i)
       ELSE /\ th' = [th EXCEPT ![t] = [c EXCEPT !.pc = "done",
                                   !.ret.status = "PERMISSION_DENIED"]]
            /\ insts' = insts
    /\ UNCHANGED <<next_cid, vms, debug_held_vms, lock, launched, assigned,
                   last_failed, env>>

\* line 97: take the lock.
HoldLock(t) ==
    /\ th[t].pc = "hold_lock"
    /\ MutexFree
    /\ lock' = t
    /\ th' = [th EXCEPT ![t].pc = "hold_push"]
    /\ UNCHANGED <<next_cid, vms, debug_held_vms, insts, launched, assigned,
                   last_failed, env>>

\* lines 98-100: store the reference, return.
HoldPush(t) ==
    /\ th[t].pc = "hold_push"
    /\ debug_held_vms' = debug_hold_vm(debug_held_vms, th[t].inst)
    /\ lock' = NoThread
    /\ th' = [th EXCEPT ![t] = [Done(t, "OK", 0, <<>>, -1)
                                EXCEPT !.inst = th[t].inst]]
    /\ UNCHANGED <<next_cid, vms, insts, launched, assigned, last_failed, env>>

(***************************************************************************)
(* debugDropVmRef                                                          *)
(***************************************************************************)
\* The identities a caller may ask for: what getCid reports for the VMs
\* that are alive, the CID handed out last and the one not handed out yet.
DropArgs ==
    {getCid(insts, i) : i \in {j \in 1..Len(insts) : insts[j].strong > 0}}
        \cup {AsI32(c) : c \in {next_cid - 1, next_cid} \ 0..(FIRST_GUEST_CID - 1)}

\* Faulty variant of debugDropVmRef: the gate is looked at after the entry
\* was taken out of the list.
DropCall_GateLast(t, uid, c) ==
    /\ th[t].pc = "idle"
    /\ LET r == [Idle EXCEPT !.op = "debugDropVmRef", !.cid = c]
           pos == position(debug_held_vms, insts, c)
       IN  IF debug_access_allowed(uid)
           THEN /\ th' = [th EXCEPT ![t] = [r EXCEPT !.pc = "drop_lock"]]
                /\ UNCHANGED <<debug_held_vms, insts>>
           ELSE /\ th' = [th EXCEPT ![t] = [r EXCEPT !.pc = "done",
                                   !.ret.status = "PERMISSION_DENIED"]]
                /\ debug_held_vms' = IF pos = 0 THEN debug_held_vms
                                     ELSE swap_remove(debug_held_vms, pos)
                /\ insts' = IF pos = 0 THEN insts
                            ELSE DropStrong(insts, debug_held_vms[pos])
    /\ UNCHANGED <<next_cid, vms, lock, launched, assigned, last_failed, env>>

\* lines 106-108: the gate.
DropCall(t, uid, c) ==
    /\ th[t].pc = "idle"
    /\ LET r == [Idle EXCEPT !.op = "debugDropVmRef", !.cid = c] IN
       th' = [th EXCEPT ![t] =
                IF debug_access_allowed(uid)
                THEN [r EXCEPT !.pc = "drop_lock"]
                ELSE [r EXCEPT !.pc = "done",
                               !.ret.status = "PERMISSION_DENIED"]]
    /\ UNCHANGED <<next_cid, vms, debug_held_vms, lock, insts, launched,
                   assigned, last_failed, env>>

\* line 110: take the lock.
DropLock(t) ==
    /\ th[t].pc = "drop_lock"
    /\ MutexFree
    /\ lock' = t
    /\ th' = [th EXCEPT ![t].pc = "drop_take"]
    /\ UNCHANGED <<next_cid, vms, debug_held_vms, insts, launched, assigned,
                   last_failed, env>>

\* Faulty variant of the return of debugDropVmRef: the guard is leaked, the
\* Mutex stays locked.
DropTake_KeepsLock(t) ==
    /\ th[t].pc = "drop_take"
    /\ LET pos == position(debug_held_vms, insts, th[t].cid) IN
       IF pos = 0
       THEN /\ th' = [th EXCEPT ![t] = Done(t, "OK", 0, <<>>, -1)]
            /\ UNCHANGED <<debug_held_vms, insts>>
       ELSE /\ th' = [th EXCEPT ![t] =
                        Done(t, "OK", debug_held_vms[pos], <<>>, -1)]
            /\ debug_held_vms' = swap_remove(debug_held_vms, pos)
            /\ insts' = GiveToClient(insts, debug_held_vms[pos])
    /\ UNCHANGED <<next_cid, vms, lock, launched, assigned, last_failed, env>>

\* line 111 and State::debug_drop_vm: Ok(None), or Ok(Some(handle)) with the
\* reference moved out of the list to the caller.
DropTake(t) ==
    /\ th[t].pc = "drop_take"
    /\ LET pos == position(debug_held_vms, insts, th[t].cid) IN
       IF pos = 0
       THEN /\ th' = [th EXCEPT ![t] = Done(t, "OK", 0, <<>>, -1)]
            /\ UNCHANGED <<debug_held_vms, insts>>
       ELSE /\ th' = [th EXCEPT ![t] =
                        Done(t, "OK", debug_held_vms[pos], <<>>, -1)]
            /\ debug_held_vms' = swap_remove(debug_held_vms, pos)
            /\ insts' = GiveToClient(insts, debug_held_vms[pos])
    /\ lock' = NoThread
    /\ UNCHANGED <<next_cid, vms, launched, assigned, last_failed, env>>

(***************************************************************************)
(* The client side.                                                        *)
(***************************************************************************)
\* The caller has seen the result of its call; the thread serves the next.
Observe(t) ==
    /\ th[t].pc = "done"
    /\ th' = [th EXCEPT ![t] = Idle]
    /\ UNCHANGED <<next_cid, vms, debug_held_vms, lock, insts, launched,
                   assigned, last_failed, env>>

\* A client drops a handle to instance i (no lock involved).
ClientRelease(i) ==
    /\ insts[i].client > 0
    /\ insts' = DropStrong([insts EXCEPT ![i].client = @ - 1], i)
    /\ UNCHANGED <<next_cid, vms, debug_held_vms, lock, th, launched,
                   assigned, last_failed, env>>

Next ==
    \/ \E t \in binder_threads, p \in ConfigPaths : StartCall(t, p)
    \/ \E t \in binder_threads : StartLock(t)
    \/ \E t \in binder_threads : StartDupOk(t)
    \/ \E t \in binder_threads : StartDupFail(t)
    \/ \E t \in binder_threads : StartLoadOk(t)
    \/ \E t \in binder_threads : StartLoadFail(t)
    \/ \E t \in binder_threads : StartLaunchOk(t)
    \/ \E t \in binder_threads : StartLaunchFail(t)
    \/ \E t \in binder_threads : StartAdvanceOk(t)
    \/ \E t \in binder_threads : StartAdvanceOverflow(t)
    \/ \E t \in binder_threads : StartAdd(t)
    \/ \E t \in binder_threads, u \in Uids : ListCall(t, u)
    \/ \E t \in binder_threads : ListLock(t)
    \/ \E t \in binder_threads : ListScan(t)
    \/ \E t \in binder_threads : ListReturn(t)
    \/ \E t \in binder_threads, u \in Uids, i \in 1..Len(insts) : HoldCall(t, u, i)
    \/ \E t \in binder_threads : HoldLock(t)
    \/ \E t \in binder_threads : HoldPush(t)
    \/ \E t \in binder_threads, u \in Uids, c \in DropArgs : DropCall(t, u, c)
    \/ \E t \in binder_threads : DropLock(t)
    \/ \E t \in binder_threads : DropTake(t)
    \/ \E t \in binder_threads : Observe(t)
    \/ \E i \in 1..Len(insts) : ClientRelease(i)

Spec == Init /\ [][Next]_vars

SpecConc == InitConc /\ [][Next]_vars

\* Taking the Mutex, in whichever handler thread t runs.
Acquire(t) == StartLock(t) \/ ListLock(t) \/ HoldLock(t) \/ DropLock(t)

\* A step of the handler that owns the Mutex: the code runs on, and the
\* calls it makes (try_clone, VmConfig::load, VmInstance::start) return,
\* with one outcome or the other.
Proceed(t) ==
    \/ StartDupOk(t) \/ StartDupFail(t)
    \/ StartLoadOk(t) \/ StartLoadFail(t)
    \/ StartLaunchOk(t) \/ StartLaunchFail(t)
    \/ StartAdvanceOk(t) \/ StartAdvanceOverflow(t)
    \/ StartAdd(t)
    \/ ListScan(t) \/ ListReturn(t)
    \/ HoldPush(t)
    \/ DropTake(t)

\* A thread that runs keeps running, and a thread that asks for the Mutex
\* again and again while it is free gets it.  Nothing makes a client call,
\* read a result or release a handle.
Fairness ==
    \A t \in Threads : WF_vars(Proceed(t)) /\ SF_vars(Acquire(t))

SpecLive == InitLive /\ [][Next]_vars /\ Fairness

(***************************************************************************)
(* Properties.                                                             *)
(***************************************************************************)
StartOk(t) ==
    th[t].pc = "done" /\ th[t].op = "startVm" /\ th[t].ret.status = "OK"

InSeq(s, x) == \E k \in 1..Len(s) : s[k] = x

\* C1: the CIDs returned by the successful startVm calls of a fresh service,
\* in call order, are strictly increasing (hence pairwise distinct), the
\* first one is FIRST_GUEST_CID, and a call that just succeeded returned the
\* last of them.
C1_SequentialIdentities ==
    /\ \A k \in 1..(Len(assigned) - 1) : assigned[k] < assigned[k + 1]
    /\ Len(assigned) > 0 => assigned[1] = FIRST_GUEST_CID
    /\ \A t \in Threads :
          StartOk(t) => /\ Len(assigned) > 0
                        /\ launched[th[t].ret.inst] = assigned[Len(assigned)]

C1_Witness ==
    /\ Len(assigned) >= 3
    /\ \E t \in Threads : StartOk(t)

\* C2: no two VM instances the launcher ever produced carry the same CID.
C2_NoIdentityReuse ==
    \A j, k \in 1..Len(launched) : j # k => launched[j] # launched[k]

\* C3: with startVm calls running concurrently, the CIDs the successful
\* calls received are pairwise distinct, and two calls whose results are
\* outstanding at the same time hold different CIDs and different instances.
C3_ConcurrentDistinct ==
    /\ \A j, k \in 1..Len(assigned) : j # k => assigned[j] # assigned[k]
    /\ \A t, u \in Threads :
          (t # u /\ StartOk(t) /\ StartOk(u)) =>
              /\ th[t].cid # th[u].cid
              /\ th[t].ret.inst # th[u].ret.inst
              /\ launched[th[t].ret.inst] # launched[th[u].ret.inst]

\* Two startVm calls succeeded, one of them entered while the other one was
\* holding the lock.
C3_Witness ==
    \E t, u \in Threads :
        /\ t # u
        /\ StartOk(t) /\ StartOk(u)
        /\ th[u].waited

\* C4: the counter never decreases and never leaves the range of Cid; a
\* startVm that reaches the increment with the counter at Cid::MAX returns
\* an error status to its caller and leaves the counter where it is.
C4_NoWrap ==
    [][/\ next_cid' >= next_cid
       /\ next_cid' <= CidMax
       /\ \A t \in Threads :
             (th[t].pc = "start_advance" /\ next_cid = CidMax
                 /\ th'[t].pc # "start_advance") =>
                 /\ th'[t].pc = "done"
                 /\ th'[t].ret.status = "UNKNOWN_ERROR"
                 /\ th'[t].ret.inst = 0
                 /\ next_cid' = CidMax]_vars

\* A startVm ran into the overflow: it launched with Cid::MAX and failed.
C4_Witness ==
    \E t \in Threads :
        /\ th[t].pc = "done" /\ th[t].op = "startVm"
        /\ th[t].ret.status = "UNKNOWN_ERROR"
        /\ th[t].cid = CidMax
        /\ next_cid = CidMax
        /\ Len(launched) > 0 /\ launched[Len(launched)] = CidMax

ListOk(t) ==
    th[t].pc = "done" /\ th[t].op = "debugListVms" /\ th[t].ret.status = "OK"

DropOk(t) ==
    th[t].pc = "done" /\ th[t].op = "debugDropVmRef" /\ th[t].ret.status = "OK"

\* Instance i was returned by a successful startVm.
Created(i) == InSeq(assigned, launched[i])

\* The result of a debugListVms, entry by entry: it comes from an instance a
\* successful startVm created, no instance is listed twice, an instance that
\* is alive keeps its config path in its entry, and every instance that is
\* alive when the call returns has its entry.  Identity(i) is the identity an
\* entry is expected to carry for instance i.
ListVmsExact(Identity(_)) ==
    \A t \in Threads :
        ListOk(t) =>
            LET l == th[t].ret.list
                src == th[t].tmp
            IN  /\ Len(l) = Len(src)
                /\ \A k \in 1..Len(src) :
                      /\ Created(src[k])
                      /\ l[k].cid = Identity(src[k])
                      /\ insts[src[k]].strong > 0 =>
                            l[k].configPath = insts[src[k]].config_path
                      /\ \A m \in 1..Len(src) : m # k => src[m] # src[k]
                /\ \A i \in 1..Len(insts) :
                      (Created(i) /\ insts[i].strong > 0) => InSeq(src, i)

RawIdentity(i) == launched[i]
ReportedIdentity(i) == AsI32(launched[i])

\* C6: for a privileged caller debugListVms returns exactly one entry per
\* instance that a successful startVm created and that is still alive, the
\* entry carrying the CID allocated to the instance and its config path.
C6_ListVmsExact == ListVmsExact(RawIdentity)

\* The same with the CID as `cid as i32` reports it.
ListVmsExactAsReported == ListVmsExact(ReportedIdentity)

\* The strong references to instance i that threads hold in their locals.
LocalRefs(i) ==
    Cardinality({t \in Threads :
                    /\ th[t].inst = i
                    /\ th[t].pc \in {"start_advance", "start_add",
                                     "hold_lock", "hold_push"}})
        + Cardinality({t \in Threads :
                          th[t].pc = "list_scan" /\ InSeq(th[t].tmp, i)})

\* C7: an entry of vms keeps no instance alive (an instance that no client,
\* no entry of debug_held_vms and no running handler holds is destroyed,
\* whether vms refers to it or not), and once an instance is destroyed no
\* debugListVms adds it to its result.
C7_ReleasedNeverListed ==
    /\ [](\A i \in 1..Len(insts) :
             (/\ insts[i].client = 0
              /\ ~InSeq(debug_held_vms, i)
              /\ LocalRefs(i) = 0) => insts[i].strong = 0)
    /\ [][\A t \in Threads : \A i \in 1..Len(insts) :
             (insts[i].strong = 0 /\ ~InSeq(th[t].tmp, i)) =>
                 ~InSeq(th'[t].tmp, i)]_vars

\* A debugListVms returned without an instance that vms still refers to and
\* that was destroyed without any call to the service.
C7_Witness ==
    \E t \in Threads : \E i \in 1..Len(insts) :
        /\ ListOk(t)
        /\ InSeq(vms, i)
        /\ insts[i].strong = 0
        /\ ~InSeq(th[t].tmp, i)

\* The gate of a debug method taken by thread t for a caller with UID u.
DebugCall(t, u) ==
    \/ ListCall(t, u)
    \/ \E i \in 1..Len(insts) : HoldCall(t, u, i)
    \/ \E c \in DropArgs : DropCall(t, u, c)

\* C8: a call of debugListVms, debugHoldVmRef or debugDropVmRef returns
\* PERMISSION_DENIED if and only if the UID of its caller is neither 0 nor
\* 2000, whatever the state and whatever was called before; a caller that
\* passes the gate goes on to take the lock.
C8_GateDecision ==
    [][\A t \in Threads : \A u \in Uids :
          (th[t].pc = "idle" /\ th'[t].pc # "idle" /\ DebugCall(t, u)) =>
              /\ (th'[t].ret.status = "PERMISSION_DENIED") <=> (u \notin {0, 2000})
              /\ (th'[t].pc = "done") <=> (u \notin {0, 2000})
              /\ (u \in {0, 2000}) =>
                    th'[t].pc \in {"list_lock", "hold_lock", "drop_lock"}]_vars

\* debugDropVmRef was refused while debug_held_vms holds a reference that an
\* earlier, privileged debugHoldVmRef put there.
C8_Witness ==
    \E t \in Threads :
        /\ th[t].pc = "done"
        /\ th[t].op = "debugDropVmRef"
        /\ th[t].ret.status = "PERMISSION_DENIED"
        /\ debug_held_vms # <<>>

\* Entries of debug_held_vms whose getCid is c.
HeldCount(held, ins, c) ==
    Cardinality({k \in 1..Len(held) : getCid(ins, held[k]) = c})

DropTakes(t) == th[t].pc = "drop_take" /\ th'[t].pc = "done"

\* C9: a privileged debugDropVmRef(c), c being what getCid reports for a
\* handle that is held exactly once, returns that handle and leaves no entry
\* for c, so that the debugDropVmRef(c) after it returns None.
C9_HoldThenDrop ==
    [][\A t \in Threads :
          DropTakes(t) =>
              LET c == th[t].cid
                  r == th'[t].ret
              IN  /\ HeldCount(debug_held_vms, insts, c) = 1 =>
                        /\ r.status = "OK"
                        /\ r.inst # 0
                        /\ InSeq(debug_held_vms, r.inst)
                        /\ getCid(insts, r.inst) = c
                        /\ insts'[r.inst].client > 0
                        /\ HeldCount(debug_held_vms', insts', c) = 0
                  /\ HeldCount(debug_held_vms, insts, c) = 0 =>
                        /\ r.status = "OK"
                        /\ r.inst = 0]_vars

\* A debugDropVmRef returned the handle that was held, none is left for it.
C9_Witness ==
    \E t \in Threads :
        /\ DropOk(t)
        /\ th[t].ret.inst # 0
        /\ HeldCount(debug_held_vms, insts, th[t].cid) = 0

\* C10: a privileged debugDropVmRef(c) with no entry for c in debug_held_vms
\* returns Ok(None) and leaves debug_held_vms, vms and next_cid unchanged.
C10_DropAbsent ==
    [][\A t \in Threads :
          (DropTakes(t) /\ HeldCount(debug_held_vms, insts, th[t].cid) = 0) =>
              /\ th'[t].ret.status = "OK"
              /\ th'[t].ret.inst = 0
              /\ debug_held_vms' = debug_held_vms
              /\ vms' = vms
              /\ next_cid' = next_cid]_vars

\* debugDropVmRef returned None while other references are held.
C10_Witness ==
    \E t \in Threads :
        /\ DropOk(t)
        /\ th[t].ret.inst = 0
        /\ debug_held_vms # <<>>

\* Thread t is between taking the Mutex and the return that drops the guard.
InCritical(t) ==
    th[t].pc \in {"start_dup", "start_load", "start_launch", "start_advance",
                  "start_add", "list_scan", "hold_push", "drop_take"}

\* C11: at most one handler is inside the critical section and it is the
\* owner of the Mutex (so nobody else is inside while startVm runs the loader
\* or the launcher); next_cid, vms and debug_held_vms change only in steps of
\* the handler that owns the Mutex; the owner gives the Mutex up only by
\* returning, and a handler takes it only on entering its critical section.
C11_MutualExclusion ==
    /\ [](\A t, u \in Threads : (InCritical(t) /\ InCritical(u)) => t = u)
    /\ [](\A t \in Threads : InCritical(t) <=> lock = t)
    /\ [][<<next_cid, vms, debug_held_vms>> # <<next_cid', vms', debug_held_vms'>> =>
             \E t \in Threads :
                /\ lock = t /\ InCritical(t)
                /\ \A u \in Threads \ {t} : th'[u] = th[u]]_vars
    /\ [][\A t \in Threads :
             /\ (lock = t /\ lock' # t) => (lock' = NoThread /\ th'[t].pc = "done")
             /\ (lock # t /\ lock' = t) =>
                   /\ lock = NoThread
                   /\ th[t].pc \in {"start_lock", "list_lock", "hold_lock", "drop_lock"}
                   /\ InCritical(t)']_vars

\* startVm is at the launcher with the Mutex while a debugListVms that passed
\* the gate waits for it.
C11_Witness ==
    \E t, u \in Threads :
        /\ th[t].pc = "start_launch" /\ lock = t
        /\ th[u].pc = "list_lock"

\* C12: getCid on a handle a client holds returns the CID that startVm
\* allocated to the instance (the one the launcher was given), and so does
\* the cid field of every entry debugListVms returns.
C12_GetIdentityExact ==
    /\ \A i \in 1..Len(insts) :
          insts[i].client > 0 => getCid(insts, i) = launched[i]
    /\ \A t \in Threads :
          ListOk(t) =>
              \A k \in 1..Len(th[t].ret.list) :
                  th[t].ret.list[k].cid = launched[th[t].tmp[k]]

\* C13: a startVm that returns the overflow error has launched no instance:
\* when the increment of the counter fails no VmInstance of this call exists
\* and the launcher was never given the CID the call had read.
C13_OverflowLaunchesNothing ==
    [][\A t \in Threads :
          (/\ th[t].pc = "start_advance"
           /\ checked_add(next_cid) = -1
           /\ th'[t].pc = "done") =>
              /\ th[t].inst = 0
              /\ ~InSeq(launched, th[t].cid)]_vars

\* The step in which startVm returns Ok.
StartReturnsOk(t) == th[t].pc = "start_add" /\ th'[t].pc = "done"

C15_ReleaseDuringList ==
    /\ [](\A t \in Threads :
             th[t].pc = "list_scan" =>
                 \A k \in 1..Len(th[t].tmp) : insts[th[t].tmp[k]].strong > 0)
    /\ [][\A t \in Threads :
             th[t].pc = "list_scan" =>
                /\ th'[t].pc \in {"list_scan", "done"}
                /\ \A i \in 1..Len(insts) :
                      (InSeq(th'[t].tmp, i) /\ ~InSeq(th[t].tmp, i)) =>
                          /\ insts[i].strong > 0
                          /\ i = vms[th[t].idx]
                /\ th'[t].pc = "done" =>
                      /\ th'[t].ret.status = "OK"
                      /\ Len(th'[t].ret.list) = Len(th[t].tmp)
                      /\ \A k \in 1..Len(th[t].tmp) :
                            /\ th'[t].ret.list[k].configPath \in ConfigPaths
                            /\ th'[t].ret.list[k].cid = AsI32(launched[th[t].tmp[k]])]_vars

\* The client released the last handle to an instance while debugListVms was
\* scanning: the scan had promoted it, and its reference alone keeps the
\* instance alive.
C15_Witness ==
    \E t \in Threads : \E i \in 1..Len(insts) :
        /\ th[t].pc = "list_scan"
        /\ InSeq(th[t].tmp, i)
        /\ insts[i].client = 0
        /\ ~InSeq(debug_held_vms, i)
        /\ insts[i].strong = 1

\* Entries of debug_held_vms that refer to instance i.
HeldRefs(held, i) == Cardinality({k \in 1..Len(held) : held[k] = i})

HoldPushes(t) == th[t].pc = "hold_push" /\ th'[t].pc = "done"

\* C16: debugHoldVmRef appends its reference whether or not the VM is held
\* already; a debugDropVmRef(c) that finds k > 0 entries for c returns a
\* handle for c and leaves k - 1 of them and every other entry in the list
\* (k drops in a row succeed, the next finds none); one that finds no entry
\* returns None and leaves the list as it is.
C16_HoldDuplicates ==
    [][\A t \in Threads :
          /\ HoldPushes(t) =>
                /\ th'[t].ret.status = "OK"
                /\ debug_held_vms' = Append(debug_held_vms, th[t].inst)
                /\ HeldRefs(debug_held_vms', th[t].inst)
                      = HeldRefs(debug_held_vms, th[t].inst) + 1
          /\ DropTakes(t) =>
                LET c == th[t].cid
                    r == th'[t].ret
                    k == HeldCount(debug_held_vms, insts, c)
                IN  /\ k > 0 =>
                          /\ r.inst # 0
                          /\ getCid(insts, r.inst) = c
                          /\ HeldCount(debug_held_vms', insts', c) = k - 1
                          /\ Len(debug_held_vms') = Len(debug_held_vms) - 1
                          /\ \A i \in 1..Len(insts) :
                                HeldRefs(debug_held_vms', i) =
                                    HeldRefs(debug_held_vms, i)
                                        - (IF i = r.inst THEN 1 ELSE 0)
                    /\ k = 0 =>
                          /\ r.inst = 0
                          /\ debug_held_vms' = debug_held_vms]_vars

\* A VM was held twice; one debugDropVmRef has returned its handle and one
\* entry for it is still in the list.
C16_Witness ==
    \E t \in Threads :
        /\ DropOk(t)
        /\ th[t].ret.inst # 0
        /\ HeldRefs(debug_held_vms, th[t].ret.inst) = 1
        /\ HeldCount(debug_held_vms, insts, th[t].cid) = 1

ListReturns(t) == th[t].pc = "list_scan" /\ th'[t].pc = "done"

\* C17: an instance that debug_held_vms refers to is alive, whatever the
\* clients have released and however long ago it was stored; every
\* debugListVms that returns lists it; and an entry leaves debug_held_vms
\* only in the step of a debugDropVmRef called with the identity getCid
\* reports for it.
C17_RetentionNoExpiry ==
    /\ [](\A k \in 1..Len(debug_held_vms) : insts[debug_held_vms[k]].strong > 0)
    /\ [][/\ \A t \in Threads :
                ListReturns(t) =>
                    \A k \in 1..Len(debug_held_vms) :
                        \E m \in 1..Len(th'[t].ret.list) :
                            /\ th[t].tmp[m] = debug_held_vms[k]
                            /\ th'[t].ret.list[m].cid
                                  = getCid(insts, debug_held_vms[k])
          /\ \A i \in 1..Len(insts) :
                HeldRefs(debug_held_vms', i) < HeldRefs(debug_held_vms, i) =>
                    \E t \in Threads :
                        /\ DropTakes(t)
                        /\ th[t].cid = getCid(insts, i)
                        /\ th'[t].ret.inst = i]_vars

\* debugListVms returned a VM that only debug_held_vms keeps alive: the
\* client that started it has released its handle.
C17_Witness ==
    \E t \in Threads : \E i \in 1..Len(insts) :
        /\ ListOk(t)
        /\ InSeq(debug_held_vms, i)
        /\ insts[i].client = 0
        /\ InSeq(th[t].tmp, i)
        /\ \E m \in 1..Len(th[t].ret.list) :
              th[t].ret.list[m].cid = getCid(insts, i)

\* The step in which thread t returns PERMISSION_DENIED.
Denies(t) ==
    th[t].ret.status # "PERMISSION_DENIED" /\ th'[t].ret.status = "PERMISSION_DENIED"

\* C18: a debug call that is refused returns in the step that enters the
\* handler: next_cid, vms, debug_held_vms and the instances are what they
\* were, the Mutex is with whoever had it, and the refused handler is never
\* its owner.
C18_DeniedLeavesState ==
    /\ [][\A t \in Threads :
             Denies(t) =>
                /\ th[t].pc = "idle" /\ th'[t].pc = "done"
                /\ th'[t].op \in {"debugListVms", "debugHoldVmRef", "debugDropVmRef"}
                /\ next_cid' = next_cid
                /\ vms' = vms
                /\ debug_held_vms' = debug_held_vms
                /\ insts' = insts
                /\ lock' = lock /\ lock # t]_vars
    /\ [](\A t \in Threads :
             th[t].ret.status = "PERMISSION_DENIED" => ~InCritical(t) /\ lock # t)

\* A debugDropVmRef for a VM that is held was refused while another handler
\* was in its critical section.
C18_Witness ==
    \E t, u \in Threads :
        /\ th[t].pc = "done"
        /\ th[t].op = "debugDropVmRef"
        /\ th[t].ret.status = "PERMISSION_DENIED"
        /\ HeldCount(debug_held_vms, insts, th[t].cid) > 0
        /\ lock = u /\ u # t

\* The step in which startVm returns an error.
StartReturnsErr(t) ==
    /\ th[t].op = "startVm"
    /\ th[t].pc # "done" /\ th'[t].pc = "done"
    /\ th'[t].ret.status # "OK"

\* C19: from taking the Mutex to an error return, whichever it is, startVm
\* leaves vms and debug_held_vms as they are; the error return carries no
\* handle, gives no client a reference, and an instance the call had
\* launched is destroyed with it.
C19_FailedStartFrame ==
    [][\A t \in Threads :
          /\ (th[t].op = "startVm" /\ lock = t /\ ~StartReturnsOk(t)) =>
                /\ vms' = vms
                /\ debug_held_vms' = debug_held_vms
          /\ StartReturnsErr(t) =>
                /\ th'[t].ret.status \in {"UNKNOWN_ERROR", "BAD_VALUE"}
                /\ th'[t].ret.inst = 0
                /\ lock = t
                /\ Len(insts') = Len(insts)
                /\ \A i \in 1..Len(insts) : insts'[i].client = insts[i].client
                /\ th[t].inst # 0 => insts'[th[t].inst] = Dropped
                /\ \A i \in 1..Len(insts) : i # th[t].inst => insts'[i] = insts[i]]_vars

\* startVm failed at the increment of the counter, with a VM tracked in vms
\* and held in debug_held_vms: the instance it launched is gone and vms has
\* no entry for it.
C19_Witness ==
    \E t \in Threads :
        /\ th[t].pc = "done" /\ th[t].op = "startVm"
        /\ th[t].ret.status = "UNKNOWN_ERROR"
        /\ th[t].cid = CidMax
        /\ Len(insts) > 0 /\ launched[Len(insts)] = CidMax
        /\ insts[Len(insts)] = Dropped
        /\ ~InSeq(vms, Len(insts))
        /\ vms # <<>>
        /\ debug_held_vms # <<>>

\* Thread t runs a handler that has not returned yet.
InHandler(t) == th[t].pc \notin {"idle", "done"}

\* C20: a handler that has returned, with whatever status, does not own the
\* Mutex; with the loader and the launcher returning and a fair Mutex, every
\* call that entered a handler returns, and whenever the Mutex is owned it
\* becomes free again.
C20_LockReleased ==
    /\ [](\A t \in Threads : th[t].pc \in {"idle", "done"} => lock # t)
    /\ \A t \in Threads : InHandler(t) ~> (th[t].pc = "done")
    /\ (lock # NoThread) ~> (lock = NoThread)

\* A startVm returned an error and the startVm that was waiting for the
\* Mutex meanwhile has taken it.
C20_Witness ==
    \E t, u \in Threads :
        /\ th[t].pc = "done" /\ th[t].op = "startVm"
        /\ th[t].ret.status # "OK"
        /\ th[u].op = "startVm" /\ th[u].waited
        /\ lock = u

====
